---- MODULE Spec2Model ----
(***************************************************************************)
(* benchy (src/src/main.rs): an HTTP load generator.  main splits          *)
(* args.requests over args.connections worker tasks, each keeping up to    *)
(* args.pipeline send_request futures in a FuturesUnordered; every result  *)
(* goes through an unbounded mpsc channel to one collector task, which     *)
(* keeps the latencies and, in fail-fast mode, the first error, and sets   *)
(* abort_flag.  main joins the workers, then the collector, and reports.   *)
(*                                                                         *)
(* Granularity: one step per access to shared state (abort_flag, stats,    *)
(* the channel), the task-local statements around it included.  The tokio  *)
(* runtime of #[tokio::main] is multi-threaded, so the tasks interleave at *)
(* this granularity.  A send_request future only runs while its worker is  *)
(* suspended in in_flight.next().await (futures are polled by their        *)
(* owner).                                                                 *)
(***************************************************************************)
EXTENDS Integers, Sequences, FiniteSets, Bags, TLC

\* ---------------------------------------------------------------- bounds
MaxN == 3          \* args.requests ranges over 0..MaxN
MaxC == 2          \* args.connections ranges over 1..MaxC
MaxP == 2          \* args.pipeline ranges over 1..MaxP
MaxFairN == 2      \* args.requests in the liveness specification
MaxFairP == 2      \* args.pipeline in the liveness specification
MaxDistN == 12     \* args.requests in the distribution-only specification
MaxDistC == 4      \* args.connections in the distribution-only specification
MaxSeriesLen == 22 \* length of the series in the statistics-only specification
MaxValue == 3      \* a latency in the statistics-only specification is in 1..MaxValue

VARIABLES
    args,          \* Args: requests, connections, pipeline, fail_fast
    stats,         \* Stats: success, failed (AtomicU64)
    abort_flag,    \* AtomicBool
    chan,          \* the messages queued in the unbounded mpsc channel
    senders,       \* live Sender handles of the channel (tx and its clones)
    mpc,           \* main: "spawn", "spawn_collector", "join", "report", "done"
    spawned,       \* main: i of the spawn loop
    joined,        \* main: handles already awaited
    output,        \* main: what was printed and the exit status, <<>> before
    wpc,           \* worker task i: position
    my_reqs,       \* worker task i: quota
    sent,          \* worker task i: sent
    in_flight,     \* worker task i: bag of send_request futures
    result,        \* worker task i: the result next() returned, <<>> if none
    cpc,           \* collector task: "idle", "recv", "done"
    latencies,     \* collector: Vec<Duration>
    first_error,   \* collector: Option<ErrorDetails> as <<>> or <<details>>
    h_produced,    \* history: results returned by send_request, per variant
    h_abandoned,   \* history: futures dropped after their counter increment
    h_errors,      \* history: the Error details the collector received, in order
    h_erred,       \* history: workers that have emitted an Error
    h_after_error, \* history: per worker, emissions after another worker's Error
    h_after_flag,  \* history: per worker, emissions while abort_flag was set
    h_disp_flag,   \* history: per worker, dispatches while abort_flag was set
    h_observed,    \* history: per worker, whether it has loaded abort_flag = true
    h_disp_obs,    \* history: per worker, dispatches after it loaded true
    h_emit_obs,    \* history: per worker, emissions after it loaded true
    h_compl_obs,   \* history: per worker, results next() returned after it loaded true
    h_emitted,     \* history: results sent into the channel, per variant
    h_flag_writes  \* history: stores to abort_flag

cfgvars == <<args>>
shared == <<stats, abort_flag, chan, senders>>
mainvars == <<mpc, spawned, joined, output>>
workervars == <<wpc, my_reqs, sent, in_flight, result>>
collvars == <<cpc, latencies, first_error>>
histvars == <<h_produced, h_abandoned, h_errors, h_erred, h_after_error,
              h_after_flag, h_disp_flag, h_observed, h_disp_obs,
              h_emit_obs, h_compl_obs, h_emitted, h_flag_writes>>
vars == <<cfgvars, shared, mainvars, workervars, collvars, histvars>>

Workers == 0 .. (args.connections - 1)

\* The latencies a request may measure.  No condition of the program reads a
\* latency, so the model of the tasks carries a single value.
Durations == {1}

\* ------------------------------------------------------- RequestResult
None == <<>>
Some(x) == <<x>>

Success(d) == [tag |-> "Success", elapsed |-> d, details |-> None]
Failed(d) == [tag |-> "Failed", elapsed |-> d, details |-> None]
Error(details) == [tag |-> "Error", elapsed |-> 0, details |-> Some(details)]

\* ErrorDetails: status, and the worker whose request it describes (standing
\* for message, headers and body, which tell two errors apart).
ErrorDetails(status, i) == [status |-> status, worker |-> i]

\* StatusCode::is_success
IsSuccess(status) == status >= 200 /\ status <= 299

\* The status codes a response may carry in the model: one 2xx, one not.
HttpStatuses == {200, 500}

\* ------------------------------------------------------- send_request
\* A send_request future in in_flight is at one of its awaits.
FutSend == [stage |-> "send", elapsed |-> 0, status |-> 0]
FutBytesOk(d) == [stage |-> "bytes_ok", elapsed |-> d, status |-> 0]
FutBytesFailed(d) == [stage |-> "bytes_failed", elapsed |-> d, status |-> 0]
FutText(status) == [stage |-> "text", elapsed |-> 0, status |-> status]

BagAdd(b, e) == b (+) SetToBag({e})
BagRemove(b, e) == b (-) SetToBag({e})

\* Mutant: a non-success response is not counted.
CountResponse_SuccessOnly(st, status) ==
    IF IsSuccess(status) THEN [st EXCEPT !.success = @ + 1] ELSE st

\* Mutant: a non-success response counts as a success too.
CountResponse_Both(st, status) ==
    IF IsSuccess(status)
    THEN [st EXCEPT !.success = @ + 1]
    ELSE [st EXCEPT !.success = @ + 1, !.failed = @ + 1]

\* The counter a response increments (lines 287-292).
CountResponse(st, status) ==
    IF IsSuccess(status)
    THEN [st EXCEPT !.success = @ + 1]
    ELSE [st EXCEPT !.failed = @ + 1]

\* Mutant: a non-success response is read as in a run without fail-fast.
AfterResponse_NoPromote(status, d, ff) ==
    IF IsSuccess(status) THEN FutBytesOk(d) ELSE FutBytesFailed(d)

\* The await a future goes to once its response has arrived (lines 287-306).
AfterResponse(status, d, ff) ==
    IF IsSuccess(status) THEN FutBytesOk(d)
    ELSE IF ff THEN FutText(status)
    ELSE FutBytesFailed(d)

\* The result of a future whose body has been read (lines 290, 297, 305).
BodyResult(f, i) ==
    IF f.stage = "bytes_ok" THEN Success(f.elapsed)
    ELSE IF f.stage = "bytes_failed" THEN Failed(f.elapsed)
    ELSE Error(ErrorDetails(Some(f.status), i))

\* Mutant: a transport error is never promoted to an Error.
TransportResult_NoPromote(d, i, ff) == Failed(d)

\* The result of a future whose send() failed (lines 309-322).
TransportResult(d, i, ff) ==
    IF ff THEN Error(ErrorDetails(None, i)) ELSE Failed(d)

\* ------------------------------------------------------- Work Distributor
\* Mutant: the extra unit goes to the workers up to and including N mod C.
Quota_OffByOne(N, C, i) == (N \div C) + (IF i <= N % C THEN 1 ELSE 0)

\* my_reqs of worker i (lines 119, 120, 135).
Quota(N, C, i) == (N \div C) + (IF i < N % C THEN 1 ELSE 0)

\* ---------------------------------------------------------------- Init
InitRest ==
    /\ stats = [success |-> 0, failed |-> 0]
    /\ abort_flag = FALSE
    /\ chan = <<>>
    /\ senders = 1
    /\ mpc = "spawn"
    /\ spawned = 0
    /\ joined = 0
    /\ output = None
    /\ wpc = [i \in Workers |-> "idle"]
    /\ my_reqs = [i \in Workers |-> 0]
    /\ sent = [i \in Workers |-> 0]
    /\ in_flight = [i \in Workers |-> EmptyBag]
    /\ result = [i \in Workers |-> None]
    /\ cpc = "idle"
    /\ latencies = <<>>
    /\ first_error = None
    /\ h_produced = [Success |-> 0, Failed |-> 0, Error |-> 0]
    /\ h_abandoned = [success |-> 0, failed |-> 0]
    /\ h_errors = <<>>
    /\ h_erred = {}
    /\ h_after_error = [i \in Workers |-> 0]
    /\ h_after_flag = [i \in Workers |-> 0]
    /\ h_disp_flag = [i \in Workers |-> 0]
    /\ h_observed = [i \in Workers |-> FALSE]
    /\ h_disp_obs = [i \in Workers |-> 0]
    /\ h_emit_obs = [i \in Workers |-> 0]
    /\ h_compl_obs = [i \in Workers |-> 0]
    /\ h_emitted = [Success |-> 0, Failed |-> 0, Error |-> 0]
    /\ h_flag_writes = 0

Init ==
    /\ args \in [requests : 0 .. MaxN, connections : 1 .. MaxC,
                 pipeline : 1 .. MaxP, fail_fast : BOOLEAN]
    /\ InitRest

\* ---------------------------------------------------------------- main
\* One iteration of the spawn loop (lines 124-164).
SpawnWorker ==
    /\ mpc = "spawn"
    /\ spawned < args.connections
    /\ my_reqs' = [my_reqs EXCEPT
                     ![spawned] = Quota(args.requests, args.connections, spawned)]
    /\ wpc' = [wpc EXCEPT ![spawned] = "seed"]
    /\ senders' = senders + 1
    /\ spawned' = spawned + 1
    /\ UNCHANGED <<cfgvars, stats, abort_flag, chan, mpc, joined, output,
                   sent, in_flight, result, collvars, histvars>>

\* Mutant: main keeps its Sender.
DropSender_Kept(n) == n

\* The Sender count after drop(tx) (line 166).
DropSender(n) == n - 1

\* The end of the spawn loop and drop(tx) (line 166).
DropTx ==
    /\ mpc = "spawn"
    /\ spawned = args.connections
    /\ senders' = DropSender(senders)
    /\ mpc' = "spawn_collector"
    /\ UNCHANGED <<cfgvars, stats, abort_flag, chan, spawned, joined, output,
                   workervars, collvars, histvars>>

\* tokio::spawn of the collector (lines 168-188).
SpawnCollector ==
    /\ mpc = "spawn_collector"
    /\ cpc' = "recv"
    /\ mpc' = "join"
    /\ UNCHANGED <<cfgvars, shared, spawned, joined, output, workervars,
                   latencies, first_error, histvars>>

\* h.await of the next handle (lines 190-192).
JoinWorker ==
    /\ mpc = "join"
    /\ joined < args.connections
    /\ wpc[joined] = "done"
    /\ joined' = joined + 1
    /\ UNCHANGED <<cfgvars, shared, mpc, spawned, output, workervars,
                   collvars, histvars>>

\* Mutant: main goes on to the report without awaiting the collector.
JoinCollector_NoWait ==
    /\ mpc = "join"
    /\ joined = args.connections
    /\ mpc' = "report"
    /\ UNCHANGED <<cfgvars, shared, spawned, joined, output, workervars,
                   collvars, histvars>>

\* collector.await (line 194).
JoinCollector ==
    /\ mpc = "join"
    /\ joined = args.connections
    /\ cpc = "done"
    /\ mpc' = "report"
    /\ UNCHANGED <<cfgvars, shared, spawned, joined, output, workervars,
                   collvars, histvars>>

\* ------------------------------------------------------- Statistics Engine
RECURSIVE SumSeq(_)
SumSeq(s) == IF s = <<>> THEN 0 ELSE Head(s) + SumSeq(Tail(s))

\* latencies.get(k).copied().unwrap_or_default(), k 0-based
GetOrZero(s, k) == IF k < Len(s) THEN s[k + 1] ELSE 0

\* latencies.sort_unstable() (line 218).
Sorted(series) == SortSeq(series, LAMBDA a, b : a < b)

\* Mutant: the percentiles are read from the series as collected.
Statistics_Unsorted(series) ==
    LET len == Len(series)
    IN  [p50 |-> GetOrZero(series, len \div 2),
         p95 |-> GetOrZero(series, (len * 95) \div 100),
         p99 |-> GetOrZero(series, (len * 99) \div 100),
         avg |-> IF len > 0 THEN SumSeq(series) \div len ELSE 0]

\* Lines 218-228.
Statistics(series) ==
    LET sorted == Sorted(series)
        len == Len(sorted)
    IN  [p50 |-> GetOrZero(sorted, len \div 2),
         p95 |-> GetOrZero(sorted, (len * 95) \div 100),
         p99 |-> GetOrZero(sorted, (len * 99) \div 100),
         avg |-> IF len > 0 THEN SumSeq(sorted) \div len ELSE 0]

\* Whether main prints the error block and exits with 1 (line 198).
Aborted(err) == err # None

\* Mutant: the error block is printed without process::exit(1), and main goes
\* on to the statistics.
Report_NoExit ==
    /\ mpc = "report"
    /\ output' = Some([block |-> "Results", exit |-> 0,
                       success |-> stats.success, failed |-> stats.failed,
                       latency |-> Statistics(latencies)])
    /\ latencies' = Sorted(latencies)
    /\ mpc' = "done"
    /\ UNCHANGED <<cfgvars, shared, spawned, joined, workervars, cpc,
                   first_error, histvars>>

\* The report and the exit (lines 198-248).
Report ==
    /\ mpc = "report"
    /\ output' =
         IF Aborted(first_error)
         THEN Some([block |-> "Error Details", exit |-> 1,
                    status |-> first_error[1].status])
         ELSE Some([block |-> "Results", exit |-> 0,
                    success |-> stats.success, failed |-> stats.failed,
                    latency |-> Statistics(latencies)])
    /\ latencies' = IF Aborted(first_error) THEN latencies ELSE Sorted(latencies)
    /\ mpc' = "done"
    /\ UNCHANGED <<cfgvars, shared, spawned, joined, workervars, cpc,
                   first_error, histvars>>

\* -------------------------------------------------------------- worker
InFlightLen(i) == BagCardinality(in_flight[i])

\* The futures of bag b that are past their counter increment.
Counted(b, stages) ==
    BagCardinality([f \in {x \in BagToSet(b) : x.stage \in stages} |-> b[f]])

\* Mutant: the seed loop ignores the pipeline depth.
SeedCond_NoDepth(i) == sent[i] < my_reqs[i] /\ ~abort_flag

\* Mutant: the seed loop compares the quota inclusively.
SeedCond_Inclusive(i) ==
    sent[i] <= my_reqs[i] /\ InFlightLen(i) < args.pipeline /\ ~abort_flag

\* Mutant: the seed loop ignores abort_flag.
SeedCond_NoAbort(i) == sent[i] < my_reqs[i] /\ InFlightLen(i) < args.pipeline

\* The seed loop's condition (line 141).
SeedCond(i) ==
    sent[i] < my_reqs[i] /\ InFlightLen(i) < args.pipeline /\ ~abort_flag

\* Mutant: the refill stops one request short of the quota.
RefillCond_Short(i) == sent[i] + 1 < my_reqs[i] /\ ~abort_flag

\* The refill condition (line 158).
RefillCond(i) == sent[i] < my_reqs[i] /\ ~abort_flag

\* Whether the condition just evaluated loaded abort_flag and read true
\* (&& short-circuits: the load happens only when what precedes it holds).
SeedLoadsTrue(i) ==
    sent[i] < my_reqs[i] /\ InFlightLen(i) < args.pipeline /\ abort_flag
RefillLoadsTrue(i) == sent[i] < my_reqs[i] /\ abort_flag

\* The task ends: in_flight and the task's Sender clone are dropped.
Finish(i) ==
    /\ wpc' = [wpc EXCEPT ![i] = "done"]
    /\ in_flight' = [in_flight EXCEPT ![i] = EmptyBag]
    /\ result' = [result EXCEPT ![i] = None]
    /\ senders' = senders - 1
    /\ h_abandoned' =
         [success |-> h_abandoned.success + Counted(in_flight[i], {"bytes_ok"}),
          failed |-> h_abandoned.failed
                       + Counted(in_flight[i], {"bytes_failed", "text"})]

\* in_flight.push(send_request(..)); sent += 1 (lines 142-143, 159-160).
Dispatch(i) ==
    /\ in_flight' = [in_flight EXCEPT ![i] = BagAdd(@, FutSend)]
    /\ sent' = [sent EXCEPT ![i] = @ + 1]
    /\ h_disp_flag' = [h_disp_flag EXCEPT ![i] = @ + (IF abort_flag THEN 1 ELSE 0)]
    /\ h_disp_obs' = [h_disp_obs EXCEPT ![i] = @ + (IF h_observed[i] THEN 1 ELSE 0)]

\* The seed loop's condition is evaluated (line 141).
SeedCheck(i) ==
    /\ wpc[i] = "seed"
    /\ UNCHANGED <<h_emit_obs, h_compl_obs, h_emitted, h_flag_writes>>
    /\ wpc' = [wpc EXCEPT ![i] = IF SeedCond(i) THEN "seed_push" ELSE "await"]
    /\ h_observed' = [h_observed EXCEPT ![i] = @ \/ SeedLoadsTrue(i)]
    /\ UNCHANGED <<cfgvars, shared, mainvars, my_reqs, sent, in_flight, result,
                   collvars, h_produced, h_abandoned, h_errors, h_erred,
                   h_after_error, h_after_flag, h_disp_flag, h_disp_obs>>

\* The seed loop's body (lines 142-143).
SeedPush(i) ==
    /\ wpc[i] = "seed_push"
    /\ UNCHANGED <<h_emit_obs, h_compl_obs, h_emitted, h_flag_writes>>
    /\ Dispatch(i)
    /\ wpc' = [wpc EXCEPT ![i] = "seed"]
    /\ UNCHANGED <<cfgvars, shared, mainvars, my_reqs, result, collvars,
                   h_produced, h_abandoned, h_errors, h_erred, h_after_error,
                   h_after_flag, h_observed>>

\* in_flight.next().await on an empty set returns None: the task ends
\* (line 146).
NextNone(i) ==
    /\ wpc[i] = "await"
    /\ UNCHANGED <<h_emit_obs, h_compl_obs, h_emitted, h_flag_writes>>
    /\ in_flight[i] = EmptyBag
    /\ Finish(i)
    /\ UNCHANGED <<cfgvars, stats, abort_flag, chan, mainvars, my_reqs, sent,
                   collvars, h_produced, h_errors, h_erred, h_after_error,
                   h_after_flag, h_disp_flag, h_observed, h_disp_obs>>

\* A future's send() returns a response with this status after d: the counter
\* is incremented and the future goes on to read the body (lines 273-304).
ResponseArrives(i, status, d) ==
    /\ wpc[i] = "await"
    /\ FutSend \in BagToSet(in_flight[i])
    /\ stats' = CountResponse(stats, status)
    /\ in_flight' = [in_flight EXCEPT
         ![i] = BagAdd(BagRemove(@, FutSend),
                       AfterResponse(status, d, args.fail_fast))]
    /\ UNCHANGED <<cfgvars, abort_flag, chan, senders, mainvars, wpc, my_reqs,
                   sent, result, collvars, histvars>>

\* next() returns r: the history of produced results.
Produce(r) == h_produced' = [h_produced EXCEPT ![r.tag] = @ + 1]

\* A future's send() fails after d: the counter is incremented and the future
\* returns at once (lines 273, 309-322); next() hands its result to the worker.
TransportError(i, d) ==
    /\ wpc[i] = "await"
    /\ h_compl_obs' = [h_compl_obs EXCEPT ![i] = @ + (IF h_observed[i] THEN 1 ELSE 0)]
    /\ UNCHANGED <<h_emit_obs, h_emitted, h_flag_writes>>
    /\ FutSend \in BagToSet(in_flight[i])
    /\ stats' = [stats EXCEPT !.failed = @ + 1]
    /\ in_flight' = [in_flight EXCEPT ![i] = BagRemove(@, FutSend)]
    /\ result' = [result EXCEPT ![i] = Some(TransportResult(d, i, args.fail_fast))]
    /\ Produce(TransportResult(d, i, args.fail_fast))
    /\ wpc' = [wpc EXCEPT ![i] = "check"]
    /\ UNCHANGED <<cfgvars, abort_flag, chan, senders, mainvars, my_reqs, sent,
                   collvars, h_abandoned, h_errors, h_erred, h_after_error,
                   h_after_flag, h_disp_flag, h_observed, h_disp_obs>>

\* A future finishes reading its body and returns (lines 289-290, 296-302,
\* 304-305); next() hands its result to the worker.
BodyRead(i, f) ==
    /\ wpc[i] = "await"
    /\ h_compl_obs' = [h_compl_obs EXCEPT ![i] = @ + (IF h_observed[i] THEN 1 ELSE 0)]
    /\ UNCHANGED <<h_emit_obs, h_emitted, h_flag_writes>>
    /\ f \in BagToSet(in_flight[i])
    /\ f.stage # "send"
    /\ in_flight' = [in_flight EXCEPT ![i] = BagRemove(@, f)]
    /\ result' = [result EXCEPT ![i] = Some(BodyResult(f, i))]
    /\ Produce(BodyResult(f, i))
    /\ wpc' = [wpc EXCEPT ![i] = "check"]
    /\ UNCHANGED <<cfgvars, shared, mainvars, my_reqs, sent, collvars,
                   h_abandoned, h_errors, h_erred, h_after_error, h_after_flag,
                   h_disp_flag, h_observed, h_disp_obs>>

\* Mutant: the drain loop never looks at abort_flag.
DrainBreak_Never == FALSE

\* The drain loop's break condition (line 147).
DrainBreak == abort_flag

\* if abort_flag.load() { break } (lines 147-149).
CheckAbort(i) ==
    /\ wpc[i] = "check"
    /\ UNCHANGED <<h_emit_obs, h_compl_obs, h_emitted, h_flag_writes>>
    /\ h_observed' = [h_observed EXCEPT ![i] = @ \/ DrainBreak]
    /\ IF DrainBreak
       THEN /\ Finish(i)
            /\ UNCHANGED <<stats, abort_flag, chan>>
       ELSE /\ wpc' = [wpc EXCEPT ![i] = "emit"]
            /\ UNCHANGED <<shared, in_flight, result, h_abandoned>>
    /\ UNCHANGED <<cfgvars, mainvars, my_reqs, sent, collvars, h_produced,
                   h_errors, h_erred, h_after_error, h_after_flag, h_disp_flag,
                   h_disp_obs>>

\* Mutant: the worker goes on after sending an Error.
ShouldAbort_Never(r) == FALSE

\* Whether the worker stops after sending r (line 151).
ShouldAbort(r) == r.tag = "Error"

\* tx.send(result), then break on an Error (lines 151-156).
Emit(i) ==
    /\ wpc[i] = "emit"
    /\ h_emit_obs' = [h_emit_obs EXCEPT ![i] = @ + (IF h_observed[i] THEN 1 ELSE 0)]
    /\ h_emitted' = [h_emitted EXCEPT ![result[i][1].tag] = @ + 1]
    /\ UNCHANGED <<h_compl_obs, h_flag_writes>>
    /\ chan' = Append(chan, result[i][1])
    /\ h_after_error' = [h_after_error EXCEPT
         ![i] = @ + (IF h_erred \ {i} # {} THEN 1 ELSE 0)]
    /\ h_after_flag' = [h_after_flag EXCEPT ![i] = @ + (IF abort_flag THEN 1 ELSE 0)]
    /\ h_erred' = IF result[i][1].tag = "Error" THEN h_erred \cup {i} ELSE h_erred
    /\ IF ShouldAbort(result[i][1])
       THEN /\ Finish(i)
       ELSE /\ wpc' = [wpc EXCEPT ![i] = "refill"]
            /\ result' = [result EXCEPT ![i] = None]
            /\ UNCHANGED <<senders, in_flight, h_abandoned>>
    /\ UNCHANGED <<cfgvars, stats, abort_flag, mainvars, my_reqs, sent, collvars,
                   h_produced, h_errors, h_disp_flag, h_observed, h_disp_obs>>

\* The refill condition is evaluated (line 158).
RefillCheck(i) ==
    /\ wpc[i] = "refill"
    /\ UNCHANGED <<h_emit_obs, h_compl_obs, h_emitted, h_flag_writes>>
    /\ wpc' = [wpc EXCEPT ![i] = IF RefillCond(i) THEN "refill_push" ELSE "await"]
    /\ h_observed' = [h_observed EXCEPT ![i] = @ \/ RefillLoadsTrue(i)]
    /\ UNCHANGED <<cfgvars, shared, mainvars, my_reqs, sent, in_flight, result,
                   collvars, h_produced, h_abandoned, h_errors, h_erred,
                   h_after_error, h_after_flag, h_disp_flag, h_disp_obs>>

\* The refill (lines 159-160).
RefillPush(i) ==
    /\ wpc[i] = "refill_push"
    /\ UNCHANGED <<h_emit_obs, h_compl_obs, h_emitted, h_flag_writes>>
    /\ Dispatch(i)
    /\ wpc' = [wpc EXCEPT ![i] = "await"]
    /\ UNCHANGED <<cfgvars, shared, mainvars, my_reqs, result, collvars,
                   h_produced, h_abandoned, h_errors, h_erred, h_after_error,
                   h_after_flag, h_observed>>

\* ----------------------------------------------------------- collector
\* Mutant: every Error received in fail-fast mode is captured.
CaptureError_Overwrite(details) ==
    IF args.fail_fast
    THEN /\ first_error' = Some(details)
         /\ abort_flag' = TRUE
         /\ h_flag_writes' = h_flag_writes + 1
    ELSE /\ UNCHANGED <<first_error, abort_flag, h_flag_writes>>

\* The collector's state after the Error arm (lines 179-184).
CaptureError(details) ==
    IF args.fail_fast /\ first_error = None
    THEN /\ first_error' = Some(details)
         /\ abort_flag' = TRUE
         /\ h_flag_writes' = h_flag_writes + 1
    ELSE /\ UNCHANGED <<first_error, abort_flag, h_flag_writes>>

\* rx.recv() returns a message and the match handles it (lines 174-185).
CollectorRecv ==
    /\ cpc = "recv"
    /\ UNCHANGED <<h_emit_obs, h_compl_obs, h_emitted>>
    /\ chan # <<>>
    /\ chan' = Tail(chan)
    /\ IF Head(chan).tag = "Error"
       THEN /\ CaptureError(Head(chan).details[1])
            /\ h_errors' = Append(h_errors, Head(chan).details[1])
            /\ UNCHANGED latencies
       ELSE /\ latencies' = Append(latencies, Head(chan).elapsed)
            /\ UNCHANGED <<first_error, abort_flag, h_errors, h_flag_writes>>
    /\ UNCHANGED <<cfgvars, stats, senders, mainvars, workervars, cpc,
                   h_produced, h_abandoned, h_erred, h_after_error,
                   h_after_flag, h_disp_flag, h_observed, h_disp_obs>>

\* Mutant: recv() returns None as soon as every Sender is dropped.
ChannelClosed_NoDrain == senders = 0

\* Whether rx.recv() returns None: nothing queued and every Sender dropped.
ChannelClosed == chan = <<>> /\ senders = 0

\* rx.recv() returns None and the task returns (lines 174, 187).
CollectorReturn ==
    /\ cpc = "recv"
    /\ ChannelClosed
    /\ cpc' = "done"
    /\ UNCHANGED <<cfgvars, shared, mainvars, workervars, latencies,
                   first_error, histvars>>

\* ------------------------------------------------------ specifications
Next ==
    \/ SpawnWorker
    \/ DropTx
    \/ SpawnCollector
    \/ JoinWorker
    \/ JoinCollector
    \/ Report
    \/ CollectorRecv
    \/ CollectorReturn
    \/ \E i \in Workers : SeedCheck(i)
    \/ \E i \in Workers : SeedPush(i)
    \/ \E i \in Workers : NextNone(i)
    \/ \E i \in Workers, status \in HttpStatuses, d \in Durations :
          ResponseArrives(i, status, d)
    \/ \E i \in Workers, d \in Durations : TransportError(i, d)
    \/ \E i \in Workers : \E f \in BagToSet(in_flight[i]) : BodyRead(i, f)
    \/ \E i \in Workers : CheckAbort(i)
    \/ \E i \in Workers : Emit(i)
    \/ \E i \in Workers : RefillCheck(i)
    \/ \E i \in Workers : RefillPush(i)

Spec == Init /\ [][Next]_vars

\* The tasks, for fairness: tokio runs every runnable task, and a worker's
\* steps include the completions of its requests.
Main == SpawnWorker \/ DropTx \/ SpawnCollector \/ JoinWorker \/ JoinCollector \/ Report

Collector == CollectorRecv \/ CollectorReturn

Worker(i) ==
    /\ i \in Workers
    /\ \/ SeedCheck(i)
       \/ SeedPush(i)
       \/ NextNone(i)
       \/ \E status \in HttpStatuses, d \in Durations : ResponseArrives(i, status, d)
       \/ \E d \in Durations : TransportError(i, d)
       \/ \E f \in BagToSet(in_flight[i]) : BodyRead(i, f)
       \/ CheckAbort(i)
       \/ Emit(i)
       \/ RefillCheck(i)
       \/ RefillPush(i)

\* The liveness check runs over its own range of totals and depths.
InitFair ==
    /\ args \in [requests : 0 .. MaxFairN, connections : 1 .. MaxC,
                 pipeline : 1 .. MaxFairP, fail_fast : BOOLEAN]
    /\ InitRest

FairSpec ==
    /\ InitFair
    /\ [][Next]_vars
    /\ WF_vars(Main)
    /\ WF_vars(Collector)
    /\ \A i \in 0 .. (MaxC - 1) : WF_vars(Worker(i))

\* The Work Distributor alone, over a wider range of totals and worker counts.
InitDist ==
    /\ args \in [requests : 0 .. MaxDistN, connections : 1 .. MaxDistC,
                 pipeline : {1}, fail_fast : {FALSE}]
    /\ InitRest

NextDist == SpawnWorker

SpecDist == InitDist /\ [][NextDist]_vars

\* The Statistics Engine alone: main has joined one worker and the collector
\* of a run without fail-fast whose len requests all succeeded, and the
\* collector returned this series: a values first, then b values, then c
\* values, in any order of a, b and c.
StepSeries(len, k1, k2, a, b, c) ==
    [n \in 1 .. len |-> IF n <= k1 THEN a ELSE IF n <= k2 THEN b ELSE c]

InitStats ==
    /\ \E len \in 0 .. MaxSeriesLen :
         /\ args = [requests |-> len, connections |-> 1, pipeline |-> 1,
                    fail_fast |-> FALSE]
         /\ \E k1 \in 0 .. len : \E k2 \in k1 .. len :
              \E a \in 1 .. MaxValue, b \in 1 .. MaxValue, c \in 1 .. MaxValue :
                 latencies = StepSeries(len, k1, k2, a, b, c)
         /\ stats = [success |-> len, failed |-> 0]
         /\ my_reqs = [i \in Workers |-> len]
         /\ sent = [i \in Workers |-> len]
         /\ h_produced = [Success |-> len, Failed |-> 0, Error |-> 0]
         /\ h_emitted = [Success |-> len, Failed |-> 0, Error |-> 0]
    /\ abort_flag = FALSE
    /\ chan = <<>>
    /\ senders = 0
    /\ mpc = "report"
    /\ spawned = 1
    /\ joined = 1
    /\ output = None
    /\ wpc = [i \in Workers |-> "done"]
    /\ in_flight = [i \in Workers |-> EmptyBag]
    /\ result = [i \in Workers |-> None]
    /\ cpc = "done"
    /\ first_error = None
    /\ h_abandoned = [success |-> 0, failed |-> 0]
    /\ h_errors = <<>>
    /\ h_erred = {}
    /\ h_after_error = [i \in Workers |-> 0]
    /\ h_after_flag = [i \in Workers |-> 0]
    /\ h_disp_flag = [i \in Workers |-> 0]
    /\ h_observed = [i \in Workers |-> FALSE]
    /\ h_disp_obs = [i \in Workers |-> 0]
    /\ h_emit_obs = [i \in Workers |-> 0]
    /\ h_compl_obs = [i \in Workers |-> 0]
    /\ h_flag_writes = 0

NextStats == Report

SpecStats == InitStats /\ [][NextStats]_vars

\* ------------------------------------------------------------- claims
RECURSIVE SumOver(_, _)
SumOver(f, n) == IF n = 0 THEN 0 ELSE f[n - 1] + SumOver(f, n - 1)

AllSpawned == spawned = args.connections

\* Futures of all workers that are at one of these awaits.
InBody(stages) ==
    SumOver([i \in Workers |-> Counted(in_flight[i], stages)], args.connections)

BodyStages == {"bytes_ok", "bytes_failed", "text"}

Completed == h_produced.Success + h_produced.Failed + h_produced.Error

\* C1: worker i's quota is floor(N/C) + (1 if i < N mod C else 0); the quotas
\* sum to N, none is negative, they differ by at most one and the larger ones
\* come first; N=10, C=3 gives 4,3,3.
C1_Distribution ==
    LET N == args.requests
        C == args.connections
    IN  /\ \A i \in 0 .. (spawned - 1) :
              /\ my_reqs[i] >= 0
              /\ my_reqs[i] = (N \div C) + (IF i < N % C THEN 1 ELSE 0)
              /\ \A j \in 0 .. (spawned - 1) :
                    /\ my_reqs[i] - my_reqs[j] <= 1
                    /\ i < j => my_reqs[i] >= my_reqs[j]
        /\ AllSpawned =>
              /\ SumOver(my_reqs, C) = N
              /\ Cardinality({i \in Workers : my_reqs[i] > N \div C}) = N % C
        /\ (AllSpawned /\ N = 10 /\ C = 3) =>
              my_reqs[0] = 4 /\ my_reqs[1] = 3 /\ my_reqs[2] = 3

C1_Witness ==
    /\ args.requests = 10 /\ args.connections = 3 /\ AllSpawned
    /\ my_reqs[0] = 4 /\ my_reqs[2] = 3

\* C2: every worker has at most args.pipeline requests in flight and has sent
\* at most its quota, in every state.
C2_Window ==
    \A i \in Workers :
        /\ InFlightLen(i) <= args.pipeline
        /\ sent[i] <= my_reqs[i]

\* A worker that has refilled its window up to the depth and its quota.
C2_Witness ==
    \E i \in Workers :
        /\ args.pipeline = 2 /\ my_reqs[i] = 3 /\ sent[i] = 3
        /\ InFlightLen(i) = 2 /\ wpc[i] = "await"

\* C3 as stated: no dispatch happens in a state where abort_flag is set.
C3_Original == \A i \in Workers : h_disp_flag[i] = 0

\* C3 amended: no worker dispatches after it has itself read abort_flag as
\* set; the flag may be set between a worker's load and its dispatch, and then
\* that one dispatch, at most one per worker, happens with the flag set.
C3_Amended ==
    \A i \in Workers : h_disp_obs[i] = 0 /\ h_disp_flag[i] <= 1

\* A worker dispatched once with the flag set, then saw it and stopped short
\* of its quota.
C3_Witness ==
    \E i \in Workers :
        /\ h_disp_flag[i] = 1 /\ h_observed[i]
        /\ wpc[i] = "done" /\ sent[i] < my_reqs[i]

\* C4: the captured error is the first Error the collector received; later
\* ones are ignored, and it is never replaced or cleared.
C4_FirstError ==
    /\ first_error = (IF h_errors = <<>> THEN None ELSE Some(h_errors[1]))
    /\ Len(first_error) <= 1

\* Two workers failed, the second Error was received and ignored.
C4_Witness ==
    /\ Len(h_errors) >= 2
    /\ h_errors[2] # h_errors[1]
    /\ first_error = Some(h_errors[1])

\* C5 as stated: once a worker has emitted an Error, every other worker emits
\* at most one more outcome.
C5_Original == \A i \in Workers : h_after_error[i] <= 1

\* C5 amended: once the collector has received that Error and set abort_flag,
\* every worker emits at most one more outcome.
C5_Amended == \A i \in Workers : h_after_flag[i] <= 1

\* A worker emitted with the flag set and then stopped at its next completion.
C5_Witness ==
    \E i \in Workers :
        /\ h_after_flag[i] = 1 /\ h_observed[i] /\ wpc[i] = "done"
        /\ i \notin h_erred

\* C6: with every task scheduled and every request completing, the run reaches
\* Done: every worker has ended, the channel is closed and empty, the
\* collector has returned and main has exited.
C6_Terminates ==
    <>(/\ mpc = "done"
       /\ output # None
       /\ cpc = "done"
       /\ \A i \in Workers : wpc[i] = "done"
       /\ ChannelClosed)

\* A fail-fast run with two failing workers has ended.
C6_Witness ==
    /\ mpc = "done" /\ cpc = "done"
    /\ args.fail_fast /\ Cardinality(h_erred) = 2

\* C7: the run ends with the error block and exit status 1 exactly when an
\* error was captured, and otherwise with the statistics block and status 0;
\* in fail-fast mode, if the first request to fail returned HTTP 500, the run
\* exits with 1 and the error block carries status 500.
C7_Outcome ==
    mpc = "done" =>
        /\ output # None
        /\ (output[1].exit = 1) <=> (first_error # None)
        /\ (output[1].block = "Error Details") <=> (first_error # None)
        /\ (output[1].exit = 0) <=> (output[1].block = "Results")
        /\ output[1].exit \in {0, 1}
        /\ (args.fail_fast /\ h_errors # <<>> /\ h_errors[1].status = Some(500)) =>
              /\ output[1].exit = 1
              /\ output[1].block = "Error Details"
              /\ output[1].status = Some(500)

C7_Witness ==
    /\ mpc = "done" /\ output # None
    /\ output[1].exit = 1 /\ output[1].status = Some(500)

\* C8 as stated: a request whose outcome is Error increments neither counter,
\* so success + failed is the number of Success and Failed outcomes (taken in
\* states where no request is between its increment and its outcome).
C8_Original ==
    (InBody(BodyStages) = 0 /\ h_abandoned.success + h_abandoned.failed = 0) =>
        stats.success + stats.failed = h_produced.Success + h_produced.Failed

\* C8 amended: a request whose outcome is Error has incremented failed once
\* and success never: failed counts the Failed and the Error outcomes, success
\* the Success outcomes, each with the requests that are past their increment
\* and have no outcome yet or were dropped before it.
C8_Amended ==
    /\ stats.failed = h_produced.Failed + h_produced.Error
                        + InBody({"bytes_failed", "text"}) + h_abandoned.failed
    /\ stats.success = h_produced.Success + InBody({"bytes_ok"})
                        + h_abandoned.success

C8_Witness ==
    /\ args.fail_fast
    /\ h_produced.Error = 2 /\ stats.failed = 2 /\ stats.success >= 1

\* C9 as stated: with fail-fast disabled, success + failed equals the number
\* of completed requests in every state.
C9_Original ==
    ~args.fail_fast => stats.success + stats.failed = Completed

\* C9 amended: with fail-fast disabled, success + failed equals the number of
\* completed requests plus the requests whose response has arrived and whose
\* body is still being read; no request is dropped, so the two are equal
\* whenever no body is being read, and when the workers have ended.
C9_Amended ==
    ~args.fail_fast =>
        /\ stats.success + stats.failed = Completed + InBody(BodyStages)
        /\ stats.success = h_produced.Success + InBody({"bytes_ok"})
        /\ stats.failed = h_produced.Failed + InBody({"bytes_failed"})
        /\ h_abandoned.success + h_abandoned.failed = 0
        /\ (\A i \in Workers : wpc[i] = "done") =>
              stats.success + stats.failed = Completed

C9_Witness ==
    /\ ~args.fail_fast
    /\ \A i \in Workers : wpc[i] = "done"
    /\ stats.success >= 1 /\ stats.failed = 2 /\ Completed = 3

\* Every result a worker holds or the channel carries.
ResultsAbout ==
    {chan[k] : k \in 1 .. Len(chan)}
        \cup {result[i][1] : i \in {j \in Workers : result[j] # None}}

\* C10: with fail-fast disabled no Error is ever produced, abort_flag stays
\* false and no error is captured; with fail-fast enabled no Failed is ever
\* produced.
C10_Exclusive ==
    /\ ~args.fail_fast =>
          /\ h_produced.Error = 0
          /\ \A r \in ResultsAbout : r.tag # "Error"
          /\ ~abort_flag
          /\ first_error = None
          /\ h_errors = <<>>
    /\ args.fail_fast =>
          /\ h_produced.Failed = 0
          /\ \A r \in ResultsAbout : r.tag # "Failed"

\* A run without fail-fast in which requests failed, and has ended.
C10_Witness ==
    /\ ~args.fail_fast /\ mpc = "done"
    /\ h_produced.Failed >= 2 /\ stats.failed >= 2


Reporting == mpc \in {"report", "done"}

\* C11: with fail-fast disabled, when main reports, every worker has sent
\* exactly its quota, args.requests in total, the latencies have
\* args.requests entries and success + failed = args.requests; if no request
\* failed, success = args.requests and failed = 0.
C11_CompleteRun ==
    (~args.fail_fast /\ Reporting) =>
        /\ \A i \in Workers : sent[i] = my_reqs[i]
        /\ SumOver(sent, args.connections) = args.requests
        /\ Len(latencies) = args.requests
        /\ stats.success + stats.failed = args.requests
        /\ h_produced.Failed = 0 =>
              stats.success = args.requests /\ stats.failed = 0

\* A run of three requests over two workers, all successful, is reported.
C11_Witness ==
    /\ ~args.fail_fast /\ mpc = "done"
    /\ args.requests = 3 /\ args.connections = 2
    /\ output[1].success = 3 /\ output[1].failed = 0


SeqMin(s) == CHOOSE x \in {s[n] : n \in 1 .. Len(s)} :
                \A y \in {s[n] : n \in 1 .. Len(s)} : x <= y
SeqMax(s) == CHOOSE x \in {s[n] : n \in 1 .. Len(s)} :
                \A y \in {s[n] : n \in 1 .. Len(s)} : x >= y

Reported == mpc = "done" /\ output # None /\ output[1].block = "Results"

\* C12: for every non-empty series, the reported p50 <= p95 <= p99 and the
\* reported avg lies between the smallest and the largest latency.
C12_Ordering ==
    (Reported /\ latencies # <<>>) =>
        LET st == output[1].latency
        IN  /\ st.p50 <= st.p95
            /\ st.p95 <= st.p99
            /\ SeqMin(latencies) <= st.avg
            /\ st.avg <= SeqMax(latencies)

\* A series of at least 21 entries whose three percentiles differ.
C12_Witness ==
    /\ Reported
    /\ Len(latencies) >= 21
    /\ output[1].latency.p50 = 1
    /\ output[1].latency.p95 = 2
    /\ output[1].latency.p99 = 3


ZeroStatistics == [p50 |-> 0, p95 |-> 0, p99 |-> 0, avg |-> 0]

\* What holds all along a run of no requests.
EmptyRunState ==
    /\ \A i \in Workers :
          /\ my_reqs[i] = 0
          /\ sent[i] = 0
          /\ in_flight[i] = EmptyBag
          /\ result[i] = None
    /\ chan = <<>>
    /\ Completed = 0
    /\ h_emitted = [Success |-> 0, Failed |-> 0, Error |-> 0]
    /\ stats = [success |-> 0, failed |-> 0]
    /\ latencies = <<>>
    /\ first_error = None
    /\ ~abort_flag
    /\ mpc = "done" =>
          /\ output # None
          /\ output[1].block = "Results"
          /\ output[1].exit = 0
          /\ output[1].success = 0
          /\ output[1].failed = 0
          /\ output[1].latency = ZeroStatistics

\* C13: when args.requests = 0, in either mode, every quota is 0, nothing is
\* dispatched or emitted, and the run ends with success = failed = 0, no
\* latencies, all four statistics zero and exit status 0.
C13_EmptyRun ==
    /\ [](args.requests = 0 => EmptyRunState)
    /\ (args.requests = 0 => <>(mpc = "done"))

\* An empty fail-fast run over two workers has ended.
C13_Witness ==
    /\ args.requests = 0 /\ args.connections = 2 /\ args.fail_fast
    /\ mpc = "done" /\ output[1].exit = 0
    /\ output[1].latency = ZeroStatistics


\* C14 as stated: once a worker has read abort_flag as set it dispatches
\* nothing, emits nothing and awaits no further completion.
C14_Original ==
    \A i \in Workers :
        h_disp_obs[i] = 0 /\ h_emit_obs[i] = 0 /\ h_compl_obs[i] = 0

\* C14 amended: once a worker has read abort_flag as set it dispatches nothing
\* and emits nothing, and the result of the completion at which it reads the
\* flag is dropped with the rest of in_flight; but a worker that reads the
\* flag at the seed check or the refill check goes on to await one more
\* completion, and stops at that one.
C14_Amended ==
    \A i \in Workers :
        /\ h_disp_obs[i] = 0
        /\ h_emit_obs[i] = 0
        /\ h_compl_obs[i] <= 1
        /\ h_observed[i] => wpc[i] \in {"await", "check", "done"}
        /\ (h_observed[i] /\ wpc[i] = "await") => h_compl_obs[i] = 0
        /\ (h_observed[i] /\ wpc[i] = "check") => h_compl_obs[i] = 1

\* A worker read the flag at a seed or refill check, awaited one more
\* completion and stopped without emitting it, short of its quota.
C14_Witness ==
    \E i \in Workers :
        /\ h_compl_obs[i] = 1 /\ wpc[i] = "done"
        /\ sent[i] < my_reqs[i] /\ i \notin h_erred


\* C15: a worker that emits an Error stops with that emission: it has ended
\* in every later state, sends and dispatches nothing more, so each worker
\* emits at most one Error and at most args.connections Errors enter the
\* channel.
C15_ErrorStops ==
    /\ [](/\ \A i \in h_erred : wpc[i] = "done" /\ in_flight[i] = EmptyBag
          /\ h_emitted.Error = Cardinality(h_erred)
          /\ h_emitted.Error <= args.connections)
    /\ [][\A i \in h_erred : wpc'[i] = "done" /\ sent'[i] = sent[i]]_vars

\* Both workers have emitted an Error, one of them after a Success.
C15_Witness ==
    /\ Cardinality(h_erred) = 2 /\ h_emitted.Error = 2
    /\ h_emitted.Success >= 1


\* The collector's step that captures the Error at the head of the channel.
CaptureStep ==
    /\ args.fail_fast
    /\ cpc = "recv"
    /\ chan # <<>>
    /\ Head(chan).tag = "Error"
    /\ first_error = None
    /\ first_error' = Some(Head(chan).details[1])
    /\ chan' = Tail(chan)

\* C16: abort_flag is false at first, changes only in the collector's step
\* that captures the first Error in fail-fast mode, is stored at most once,
\* never goes back to false, and is true exactly when an error is captured.
C16_FlagLifeCycle ==
    /\ ~abort_flag
    /\ [](/\ abort_flag <=> first_error # None
          /\ h_flag_writes <= 1
          /\ abort_flag <=> h_flag_writes = 1)
    /\ [][abort_flag => abort_flag']_vars
    /\ [][abort_flag' # abort_flag => CaptureStep]_vars
    /\ [][h_flag_writes' # h_flag_writes => CaptureStep]_vars

\* The flag was stored once although a second Error was received.
C16_Witness ==
    /\ abort_flag /\ h_flag_writes = 1
    /\ Len(h_errors) >= 2


\* The messages queued in the channel that carry one of these variants.
Queued(tags) == Cardinality({k \in 1 .. Len(chan) : chan[k].tag \in tags})

\* C17: every result sent is queued or has been received once; a received
\* Success or Failed appends its latency, in that step, and an Error appends
\* nothing; the series only grows, and when the collector returns the channel
\* is empty and the series has one entry per Success or Failed sent.
C17_HandOff ==
    /\ [](/\ h_emitted.Success + h_emitted.Failed
                = Len(latencies) + Queued({"Success", "Failed"})
          /\ h_emitted.Error = Len(h_errors) + Queued({"Error"})
          /\ cpc = "done" =>
                /\ chan = <<>>
                /\ Len(latencies) = h_emitted.Success + h_emitted.Failed
                /\ Len(h_errors) = h_emitted.Error)
    /\ [][Len(latencies') >= Len(latencies)]_vars
    /\ [][(cpc = "recv" /\ chan # <<>> /\ chan' = Tail(chan)) =>
             latencies' = IF Head(chan).tag = "Error" THEN latencies
                          ELSE Append(latencies, Head(chan).elapsed)]_vars
    /\ [][Len(latencies') # Len(latencies) =>
             (cpc = "recv" /\ chan # <<>> /\ chan' = Tail(chan))]_vars

\* The collector has returned with two latencies and an Error received.
C17_Witness ==
    /\ cpc = "done"
    /\ Len(latencies) = 2 /\ Len(h_errors) >= 1
    /\ h_emitted.Success = 2


\* Requests dispatched, by all workers, in states where abort_flag was set.
Overshoot == SumOver(h_disp_flag, args.connections)

\* C18: requests may be dispatched after abort_flag is set, at most one by
\* each worker and so at most args.connections in total.
C18_Overshoot ==
    /\ \A i \in Workers : h_disp_flag[i] \in {0, 1}
    /\ Overshoot <= args.connections

\* A worker's refill, allowed by a load that read false, was dispatched with
\* the flag set and completed its quota.
C18_Witness ==
    /\ abort_flag /\ Overshoot = 1
    /\ \E i \in Workers :
          h_disp_flag[i] = 1 /\ sent[i] = my_reqs[i] /\ sent[i] > args.pipeline

\* Stronger than C18: the worker whose Error set the flag has ended.
OvershootBelowC == abort_flag => Overshoot <= args.connections - 1


\* C19: main reads the counters and the latencies only after every worker and
\* then the collector have ended; the counters never decrease; once main is
\* reporting no counter changes, no latency is appended and the captured
\* error does not change, and after the report the series is not touched; so
\* the reported values are the final ones.
C19_ReportingOrder ==
    /\ [](Reporting =>
            /\ joined = args.connections
            /\ \A i \in Workers : wpc[i] = "done"
            /\ cpc = "done"
            /\ chan = <<>>)
    /\ [](Reported =>
            /\ output[1].success = stats.success
            /\ output[1].failed = stats.failed
            /\ output[1].latency = Statistics(latencies)
            /\ latencies = Sorted(latencies))
    /\ [][stats'.success >= stats.success /\ stats'.failed >= stats.failed]_vars
    /\ [][Reporting =>
            /\ stats' = stats
            /\ Len(latencies') = Len(latencies)
            /\ first_error' = first_error]_vars
    /\ [][mpc = "done" => latencies' = latencies /\ output' = output]_vars

\* A run without fail-fast has reported successes and failures.
C19_Witness ==
    /\ Reported
    /\ output[1].success >= 1 /\ output[1].failed >= 1
    /\ Len(latencies) = 3


\* main is at, or has printed, the statistics block (lines 215-248).
AtStatistics == (mpc = "report" /\ ~Aborted(first_error)) \/ Reported

\* C20: with fail-fast, whenever main reaches the statistics block no request
\* failed: failed = 0, success = args.requests and the latencies have
\* args.requests entries; and if failed >= 1 once the tasks are joined, an
\* error was captured and the run ends with exit status 1.
C20_FailFastExit ==
    args.fail_fast =>
        /\ AtStatistics =>
              /\ stats.failed = 0
              /\ stats.success = args.requests
              /\ Len(latencies) = args.requests
        /\ (Reporting /\ stats.failed >= 1) =>
              /\ first_error # None
              /\ mpc = "done" => output[1].exit = 1 /\ output[1].block = "Error Details"

\* A fail-fast run of MaxN requests printed its statistics.
C20_Witness ==
    /\ args.fail_fast /\ Reported
    /\ args.requests = MaxN /\ stats.success = MaxN

\* A fail-fast run in which a request failed ended with exit status 1.
C20_WitnessAbort ==
    /\ args.fail_fast /\ mpc = "done" /\ stats.failed >= 1 /\ stats.success >= 1
    /\ output[1].exit = 1

====
